---- MODULE Spec2Model ----
(***************************************************************************)
(* Model of the knowledge-graph service (agent-bot/knowledge-graph,        *)
(* src/main.rs): two Mutex-guarded Vecs shared by concurrent request       *)
(* handlers.  One request = one handler instance; every source line that   *)
(* touches shared state is one step of that handler.                       *)
(***************************************************************************)
EXTENDS Integers, Sequences, FiniteSets, TLC

\* ------------------------------------------------------------- bounds
\* Number of requests the server receives in one execution.
MaxRequests == 3

\* ---------------------------------------------------------- constants
StatusOk == 200
StatusCreated == 201
StatusBadRequest == 400

Requests == 1..MaxRequests
None == 0

\* ------------------------------------------------------------ payloads
\* JSON request bodies are functions from keys to values; a struct is the
\* tuple of its fields in declaration order.
EntityKeys == {"id", "entity_type", "name", "metadata"}
RelationshipKeys == {"from_id", "to_id", "relationship_type"}

\* Bodies a client may POST to /api/entities: two well-formed objects and one
\* object that lacks required fields.
EntityBodyE1 ==
    [id |-> "e1", entity_type |-> "person", name |-> "Ada", metadata |-> "{}"]
EntityBodyE2 ==
    [id |-> "e2", entity_type |-> "document", name |-> "Paper",
     metadata |-> "{year:1843}"]
MalformedEntityBody == [id |-> "e1", entity_type |-> "person"]
EntityBodies == {EntityBodyE1, EntityBodyE2, MalformedEntityBody}

\* Bodies a client may POST to /api/relationships; no stored entity ever has
\* the id "e3".
RelationshipBodyA ==
    [from_id |-> "e1", to_id |-> "e2", relationship_type |-> "authored"]
RelationshipBodyB ==
    [from_id |-> "e3", to_id |-> "e2", relationship_type |-> "cites"]
MalformedRelationshipBody == [from_id |-> "e1"]
RelationshipBodies ==
    {RelationshipBodyA, RelationshipBodyB, MalformedRelationshipBody}

NoBody == [none |-> TRUE]

\* struct Entity { id, entity_type, name, metadata }
Entity(id, entity_type, name, metadata) == <<id, entity_type, name, metadata>>

\* struct Relationship { from_id, to_id, relationship_type }
Relationship(from_id, to_id, relationship_type) ==
    <<from_id, to_id, relationship_type>>

\* Mutant: missing fields are defaulted (#[serde(default)]).
EntityDeserializableLenient(body) == "id" \in DOMAIN body

\* #[derive(Deserialize)] for Entity: every field is required.
EntityDeserializable(body) == EntityKeys \subseteq DOMAIN body

\* Mutant: the positional fields name and entity_type exchanged.
EntityDeserializeSwapped(body) ==
    Entity(body.id, body.name, body.entity_type, body.metadata)

EntityDeserialize(body) ==
    Entity(body.id, body.entity_type, body.name, body.metadata)

\* #[derive(Serialize)] for Entity: a JSON object keyed by field name.
EntitySerialize(e) ==
    [id |-> e[1], entity_type |-> e[2], name |-> e[3], metadata |-> e[4]]

RelationshipDeserializable(body) == RelationshipKeys \subseteq DOMAIN body

RelationshipDeserialize(body) ==
    Relationship(body.from_id, body.to_id, body.relationship_type)

\* #[derive(Serialize)] for Relationship: a JSON object keyed by field name.
RelationshipSerialize(e) ==
    [from_id |-> e[1], to_id |-> e[2], relationship_type |-> e[3]]

\* Mutant: the serializer stops one element short.
VecSerializeTruncated(v) ==
    [i \in 1..(IF Len(v) = 0 THEN 0 ELSE Len(v) - 1) |-> EntitySerialize(v[i])]

\* Serialize for Vec<Entity>: a JSON array, element by element, in order.
VecSerialize(v) == [i \in 1..Len(v) |-> EntitySerialize(v[i])]

\* Mutant: the element is written over the last slot (a lost update).
VecPushOverwrite(v, x) ==
    IF Len(v) = 0 THEN <<x>> ELSE [v EXCEPT ![Len(v)] = x]

\* Mutant: the element is inserted at the front.
VecPushFront(v, x) == <<x>> \o v

\* Vec::push: the new element goes after the last one.
VecPush(v, x) == Append(v, x)

\* ------------------------------------------------------------ responses
NoResponse == [status |-> None]
HealthResponse ==
    [status |-> StatusOk,
     body |-> [status |-> "healthy", service |-> "knowledge-graph"]]
CreatedResponse == [status |-> StatusCreated, body |-> [status |-> "created"]]
BadRequestResponse == [status |-> StatusBadRequest]
ListResponse(v) == [status |-> StatusOk, body |-> VecSerialize(v)]

\* --------------------------------------------------------------- state
VARIABLES
    entities,       \* AppState.entities: the Vec<Entity> inside the Mutex
    entOwner,       \* request holding the entities MutexGuard, or None
    entPoisoned,    \* poison flag of the entities Mutex
    relationships,  \* AppState.relationships: the Vec<Relationship>
    relOwner,       \* request holding the relationships MutexGuard, or None
    relPoisoned,    \* poison flag of the relationships Mutex
    nextReq,        \* number of requests received so far
    route,          \* route[r]: handler the router chose for request r
    body,           \* body[r]: JSON body of request r
    pc,             \* pc[r]: position of request r's handler
    resp,           \* resp[r]: response sent for request r
    entOrigin,      \* history: entOrigin[i] = request that pushed entities[i]
    relOrigin,      \* history: same for relationships
    seen,           \* history: seen[r] = origins of the records r's list copied
    doneBefore,     \* history: requests answered before entity request r arrived
    lenAtStart      \* history: Len(entities) when list request r arrived

vars ==
    <<entities, entOwner, entPoisoned, relationships, relOwner, relPoisoned,
      nextReq, route, body, pc, resp, entOrigin, relOrigin, seen, doneBefore,
      lenAtStart>>

entVars == <<entities, entOwner, entPoisoned, entOrigin>>
relVars == <<relationships, relOwner, relPoisoned, relOrigin>>
histVars == <<seen, doneBefore, lenAtStart>>

Routes == {"health", "create_entity", "list_entities", "create_relationship"}

\* The Mutex each route's handler locks, and what it does to the Vec inside.
LockedStore(k) ==
    CASE k \in {"create_entity", "list_entities"} -> "entities"
      [] k = "create_relationship" -> "relationships"
      [] OTHER -> "none"
Operation(k) ==
    CASE k \in {"create_entity", "create_relationship"} -> "append"
      [] k = "list_entities" -> "enumerate"
      [] OTHER -> "none"

\* Mutant: the entity collection starts with a sample record.
InitSeeded ==
    /\ entities = <<EntityDeserialize(EntityBodyE1)>>
    /\ entOwner = None
    /\ entPoisoned = FALSE
    /\ relationships = <<>>
    /\ relOwner = None
    /\ relPoisoned = FALSE
    /\ nextReq = 0
    /\ route = [r \in Requests |-> "none"]
    /\ body = [r \in Requests |-> NoBody]
    /\ pc = [r \in Requests |-> "idle"]
    /\ resp = [r \in Requests |-> NoResponse]
    /\ entOrigin = <<None>>
    /\ relOrigin = <<>>
    /\ seen = [r \in Requests |-> <<>>]
    /\ doneBefore = [r \in Requests |-> {}]
    /\ lenAtStart = [r \in Requests |-> 0]

\* main: both Mutexes hold an empty Vec; no request has arrived.
Init ==
    /\ entities = <<>>
    /\ entOwner = None
    /\ entPoisoned = FALSE
    /\ relationships = <<>>
    /\ relOwner = None
    /\ relPoisoned = FALSE
    /\ nextReq = 0
    /\ route = [r \in Requests |-> "none"]
    /\ body = [r \in Requests |-> NoBody]
    /\ pc = [r \in Requests |-> "idle"]
    /\ resp = [r \in Requests |-> NoResponse]
    /\ entOrigin = <<>>
    /\ relOrigin = <<>>
    /\ seen = [r \in Requests |-> <<>>]
    /\ doneBefore = [r \in Requests |-> {}]
    /\ lenAtStart = [r \in Requests |-> 0]

Answered == {r \in Requests : pc[r] = "done"}

\* Request r is the next one the server accepts.
Arrive(r) ==
    /\ nextReq < MaxRequests
    /\ r = nextReq + 1
    /\ nextReq' = r

\* ------------------------------------------------------------- routing
\* GET /health
DispatchHealth(r) ==
    /\ Arrive(r)
    /\ route' = [route EXCEPT ![r] = "health"]
    /\ pc' = [pc EXCEPT ![r] = "respond"]
    /\ UNCHANGED <<entVars, relVars, body, resp, histVars>>

\* POST /api/entities: the web::Json<Entity> extractor runs before the
\* handler; a body that does not deserialize is answered with a client error
\* and create_entity is not called.
DispatchCreateEntity(r, b) ==
    /\ Arrive(r)
    /\ route' = [route EXCEPT ![r] = "create_entity"]
    /\ body' = [body EXCEPT ![r] = b]
    /\ IF EntityDeserializable(b)
       THEN /\ pc' = [pc EXCEPT ![r] = "lock"]
            /\ doneBefore' = [doneBefore EXCEPT ![r] = Answered]
            /\ UNCHANGED resp
       ELSE /\ pc' = [pc EXCEPT ![r] = "done"]
            /\ resp' = [resp EXCEPT ![r] = BadRequestResponse]
            /\ UNCHANGED doneBefore
    /\ UNCHANGED <<entVars, relVars, seen, lenAtStart>>

\* GET /api/entities
DispatchListEntities(r) ==
    /\ Arrive(r)
    /\ route' = [route EXCEPT ![r] = "list_entities"]
    /\ pc' = [pc EXCEPT ![r] = "lock"]
    /\ doneBefore' = [doneBefore EXCEPT ![r] = Answered]
    /\ lenAtStart' = [lenAtStart EXCEPT ![r] = Len(entities)]
    /\ UNCHANGED <<entVars, relVars, body, resp, seen>>

\* POST /api/relationships
DispatchCreateRelationship(r, b) ==
    /\ Arrive(r)
    /\ route' = [route EXCEPT ![r] = "create_relationship"]
    /\ body' = [body EXCEPT ![r] = b]
    /\ IF RelationshipDeserializable(b)
       THEN /\ pc' = [pc EXCEPT ![r] = "lock"]
            /\ UNCHANGED resp
       ELSE /\ pc' = [pc EXCEPT ![r] = "done"]
            /\ resp' = [resp EXCEPT ![r] = BadRequestResponse]
    /\ UNCHANGED <<entVars, relVars, histVars>>

\* Mutant: the health handler reports whether the stores are busy.
HealthProbesLocks(r) ==
    /\ route[r] = "health"
    /\ pc[r] = "respond"
    /\ resp' = [resp EXCEPT ![r] =
                   [status |-> StatusOk,
                    body |-> [status |-> IF entOwner = None /\ relOwner = None
                                         THEN "healthy" ELSE "busy",
                              service |-> "knowledge-graph"]]]
    /\ pc' = [pc EXCEPT ![r] = "done"]
    /\ UNCHANGED <<entVars, relVars, nextReq, route, body, seen, doneBefore,
                   lenAtStart>>

\* -------------------------------------------------------------- health
Health(r) ==
    /\ route[r] = "health"
    /\ pc[r] = "respond"
    /\ resp' = [resp EXCEPT ![r] = HealthResponse]
    /\ pc' = [pc EXCEPT ![r] = "done"]
    /\ UNCHANGED <<entVars, relVars, nextReq, route, body, seen, doneBefore,
                   lenAtStart>>

\* ------------------------------------------------------- entities Mutex
\* Mutant: one Mutex guards both collections.
EntLockShared == entOwner = None /\ relOwner = None

\* Mutant: lock() never waits.
EntLockNeverWaits == TRUE

\* Mutex::lock blocks until no guard is alive.
EntLockFree == entOwner = None

\* Mutant: the poison flag is ignored (PoisonError::into_inner).
EntLockIgnoresPoison == FALSE

\* Mutex::lock on a poisoned Mutex returns Err, and unwrap() panics.
EntLockFails == entPoisoned

\* data.entities.lock().unwrap(): on success the handler owns the guard; on a
\* poisoned Mutex the panic unwinds the handler, the guard carried by the
\* error is dropped at once, and no response is produced.
EntLock(r) ==
    /\ pc[r] = "lock"
    /\ EntLockFree
    /\ IF EntLockFails
       THEN /\ pc' = [pc EXCEPT ![r] = "fault"]
            /\ UNCHANGED entOwner
       ELSE /\ pc' = [pc EXCEPT ![r] = "locked"]
            /\ entOwner' = r
    /\ UNCHANGED <<entities, entPoisoned, entOrigin, relVars, nextReq, route,
                   body, resp, histVars>>

\* Mutant: the guard is leaked (mem::forget) and the Mutex stays locked.
EntUnlockLeaks(r) == entOwner' = entOwner

\* The guard goes out of scope at the end of the handler.
EntUnlock(r) == entOwner' = IF entOwner = r THEN None ELSE entOwner

\* -------------------------------------------------------- create_entity
CreateEntityLock(r) ==
    /\ route[r] = "create_entity"
    /\ EntLock(r)

\* Mutant: an entity whose id is already stored replaces the stored one.
CreateEntityPushUpsert(r) ==
    /\ route[r] = "create_entity"
    /\ pc[r] = "locked"
    /\ LET same == {i \in 1..Len(entities) : entities[i][1] = body[r].id}
       IN  IF same = {}
           THEN /\ entities' = VecPush(entities, EntityDeserialize(body[r]))
                /\ entOrigin' = VecPush(entOrigin, r)
           ELSE /\ entities' = [i \in 1..Len(entities) |->
                                   IF i \in same
                                   THEN EntityDeserialize(body[r])
                                   ELSE entities[i]]
                /\ entOrigin' = [i \in 1..Len(entOrigin) |->
                                    IF i \in same THEN r ELSE entOrigin[i]]
    /\ pc' = [pc EXCEPT ![r] = "respond"]
    /\ UNCHANGED <<entOwner, entPoisoned, relVars, nextReq, route, body, resp,
                   histVars>>

\* Mutant: an entity whose id is already stored is not pushed.
CreateEntityPushUnique(r) ==
    /\ route[r] = "create_entity"
    /\ pc[r] = "locked"
    /\ IF \E i \in 1..Len(entities) : entities[i][1] = body[r].id
       THEN UNCHANGED <<entities, entOrigin>>
       ELSE /\ entities' = VecPush(entities, EntityDeserialize(body[r]))
            /\ entOrigin' = VecPush(entOrigin, r)
    /\ pc' = [pc EXCEPT ![r] = "respond"]
    /\ UNCHANGED <<entOwner, entPoisoned, relVars, nextReq, route, body, resp,
                   histVars>>

\* entities.push(entity.into_inner())
CreateEntityPush(r) ==
    /\ route[r] = "create_entity"
    /\ pc[r] = "locked"
    /\ entities' = VecPush(entities, EntityDeserialize(body[r]))
    /\ entOrigin' = VecPush(entOrigin, r)
    /\ pc' = [pc EXCEPT ![r] = "respond"]
    /\ UNCHANGED <<entOwner, entPoisoned, relVars, nextReq, route, body, resp,
                   histVars>>

\* Mutant: the handler answers 201 although its push panicked.
CreateEntityPanicSwallowed(r) ==
    /\ route[r] = "create_entity"
    /\ pc[r] = "locked"
    /\ entPoisoned' = TRUE
    /\ EntUnlock(r)
    /\ resp' = [resp EXCEPT ![r] = CreatedResponse]
    /\ pc' = [pc EXCEPT ![r] = "done"]
    /\ UNCHANGED <<entities, entOrigin, relVars, nextReq, route, body,
                   histVars>>

\* Vec::push panics when the Vec cannot grow (capacity overflow): the guard
\* is dropped while the thread is panicking, which poisons the Mutex.
CreateEntityPanic(r) ==
    /\ route[r] = "create_entity"
    /\ pc[r] = "locked"
    /\ entPoisoned' = TRUE
    /\ EntUnlock(r)
    /\ pc' = [pc EXCEPT ![r] = "fault"]
    /\ UNCHANGED <<entities, entOrigin, relVars, nextReq, route, body, resp,
                   histVars>>

\* Mutant: the answer reports how many relationships are stored.
CreateEntityRespondCounted(r) ==
    /\ route[r] = "create_entity"
    /\ pc[r] = "respond"
    /\ resp' = [resp EXCEPT ![r] =
                   [status |-> StatusCreated,
                    body |-> [status |-> "created",
                              relationships |-> Len(relationships)]]]
    /\ EntUnlock(r)
    /\ pc' = [pc EXCEPT ![r] = "done"]
    /\ UNCHANGED <<entities, entPoisoned, entOrigin, relVars, nextReq, route,
                   body, seen, doneBefore, lenAtStart>>

\* HttpResponse::Created().json({"status": "created"}), then the guard is
\* dropped and the response returned.
CreateEntityRespond(r) ==
    /\ route[r] = "create_entity"
    /\ pc[r] = "respond"
    /\ resp' = [resp EXCEPT ![r] = CreatedResponse]
    /\ EntUnlock(r)
    /\ pc' = [pc EXCEPT ![r] = "done"]
    /\ UNCHANGED <<entities, entPoisoned, entOrigin, relVars, nextReq, route,
                   body, seen, doneBefore, lenAtStart>>

\* --------------------------------------------------------- list_entities
ListEntitiesLock(r) ==
    /\ route[r] = "list_entities"
    /\ EntLock(r)

\* Mutant: the listing also dumps the relationships after the entities.
ListEntitiesRespondGraph(r) ==
    /\ route[r] = "list_entities"
    /\ pc[r] = "locked"
    /\ resp' = [resp EXCEPT ![r] =
                   [status |-> StatusOk,
                    body |-> VecSerialize(entities) \o
                             [i \in 1..Len(relationships) |->
                                 RelationshipSerialize(relationships[i])]]]
    /\ seen' = [seen EXCEPT ![r] = entOrigin]
    /\ EntUnlock(r)
    /\ pc' = [pc EXCEPT ![r] = "done"]
    /\ UNCHANGED <<entities, entPoisoned, entOrigin, relVars, nextReq, route,
                   body, doneBefore, lenAtStart>>

\* HttpResponse::Ok().json(&*entities): the Vec is serialized through the
\* guard, then the guard is dropped and the response returned.
ListEntitiesRespond(r) ==
    /\ route[r] = "list_entities"
    /\ pc[r] = "locked"
    /\ resp' = [resp EXCEPT ![r] = ListResponse(entities)]
    /\ seen' = [seen EXCEPT ![r] = entOrigin]
    /\ EntUnlock(r)
    /\ pc' = [pc EXCEPT ![r] = "done"]
    /\ UNCHANGED <<entities, entPoisoned, entOrigin, relVars, nextReq, route,
                   body, doneBefore, lenAtStart>>

\* ------------------------------------------------- relationships Mutex
RelLockFree == relOwner = None

RelLockFails == relPoisoned

RelUnlock(r) == relOwner' = IF relOwner = r THEN None ELSE relOwner

\* --------------------------------------------------- create_relationship
\* Mutant: the handler also takes the entities guard, to look up both ends.
CreateRelationshipLockBoth(r) ==
    /\ route[r] = "create_relationship"
    /\ pc[r] = "lock"
    /\ RelLockFree
    /\ EntLockFree
    /\ IF RelLockFails
       THEN /\ pc' = [pc EXCEPT ![r] = "fault"]
            /\ UNCHANGED <<relOwner, entOwner>>
       ELSE /\ pc' = [pc EXCEPT ![r] = "locked"]
            /\ relOwner' = r
            /\ entOwner' = r
    /\ UNCHANGED <<relationships, relPoisoned, relOrigin, entities,
                   entPoisoned, entOrigin, nextReq, route, body, resp,
                   histVars>>

\* data.relationships.lock().unwrap()
CreateRelationshipLock(r) ==
    /\ route[r] = "create_relationship"
    /\ pc[r] = "lock"
    /\ RelLockFree
    /\ IF RelLockFails
       THEN /\ pc' = [pc EXCEPT ![r] = "fault"]
            /\ UNCHANGED relOwner
       ELSE /\ pc' = [pc EXCEPT ![r] = "locked"]
            /\ relOwner' = r
    /\ UNCHANGED <<relationships, relPoisoned, relOrigin, entVars, nextReq,
                   route, body, resp, histVars>>

\* Mutant: a relationship is pushed only when both ends are stored entities.
CreateRelationshipPushChecked(r) ==
    /\ route[r] = "create_relationship"
    /\ pc[r] = "locked"
    /\ IF \A id \in {body[r].from_id, body[r].to_id} :
              \E i \in 1..Len(entities) : entities[i][1] = id
       THEN /\ relationships' =
                   VecPush(relationships, RelationshipDeserialize(body[r]))
            /\ relOrigin' = VecPush(relOrigin, r)
       ELSE UNCHANGED <<relationships, relOrigin>>
    /\ pc' = [pc EXCEPT ![r] = "respond"]
    /\ UNCHANGED <<relOwner, relPoisoned, entVars, nextReq, route, body, resp,
                   histVars>>

\* Mutant: the relationship is pushed through data.entities.
CreateRelationshipPushWrongStore(r) ==
    /\ route[r] = "create_relationship"
    /\ pc[r] = "locked"
    /\ entities' = VecPush(entities, RelationshipDeserialize(body[r]))
    /\ entOrigin' = VecPush(entOrigin, r)
    /\ pc' = [pc EXCEPT ![r] = "respond"]
    /\ UNCHANGED <<entOwner, entPoisoned, relVars, nextReq, route, body, resp,
                   histVars>>

\* relationships.push(relationship.into_inner())
CreateRelationshipPush(r) ==
    /\ route[r] = "create_relationship"
    /\ pc[r] = "locked"
    /\ relationships' = VecPush(relationships, RelationshipDeserialize(body[r]))
    /\ relOrigin' = VecPush(relOrigin, r)
    /\ pc' = [pc EXCEPT ![r] = "respond"]
    /\ UNCHANGED <<relOwner, relPoisoned, entVars, nextReq, route, body, resp,
                   histVars>>

\* Vec::push panics while the relationships guard is held.
CreateRelationshipPanic(r) ==
    /\ route[r] = "create_relationship"
    /\ pc[r] = "locked"
    /\ relPoisoned' = TRUE
    /\ RelUnlock(r)
    /\ pc' = [pc EXCEPT ![r] = "fault"]
    /\ UNCHANGED <<relationships, relOrigin, entVars, nextReq, route, body,
                   resp, histVars>>

\* HttpResponse::Created().json({"status": "created"})
CreateRelationshipRespond(r) ==
    /\ route[r] = "create_relationship"
    /\ pc[r] = "respond"
    /\ resp' = [resp EXCEPT ![r] = CreatedResponse]
    /\ RelUnlock(r)
    /\ pc' = [pc EXCEPT ![r] = "done"]
    /\ UNCHANGED <<relationships, relPoisoned, relOrigin, entVars, nextReq,
                   route, body, seen, doneBefore, lenAtStart>>

\* ---------------------------------------------------------------- next
Next ==
    \/ \E r \in Requests : DispatchHealth(r)
    \/ \E r \in Requests, b \in EntityBodies : DispatchCreateEntity(r, b)
    \/ \E r \in Requests : DispatchListEntities(r)
    \/ \E r \in Requests, b \in RelationshipBodies :
           DispatchCreateRelationship(r, b)
    \/ \E r \in Requests : Health(r)
    \/ \E r \in Requests : CreateEntityLock(r)
    \/ \E r \in Requests : CreateEntityPush(r)
    \/ \E r \in Requests : CreateEntityPanic(r)
    \/ \E r \in Requests : CreateEntityRespond(r)
    \/ \E r \in Requests : ListEntitiesLock(r)
    \/ \E r \in Requests : ListEntitiesRespond(r)
    \/ \E r \in Requests : CreateRelationshipLock(r)
    \/ \E r \in Requests : CreateRelationshipPush(r)
    \/ \E r \in Requests : CreateRelationshipPanic(r)
    \/ \E r \in Requests : CreateRelationshipRespond(r)

Spec == Init /\ [][Next]_vars

\* ============================================================== claims
\* Requests whose handler body was entered, per route.
CreateEntityCalls ==
    {r \in Requests :
        route[r] = "create_entity" /\ EntityDeserializable(body[r])}
ListEntitiesCalls == {r \in Requests : route[r] = "list_entities"}
CreateRelationshipCalls ==
    {r \in Requests :
        route[r] = "create_relationship" /\ RelationshipDeserializable(body[r])}
EntityCalls == CreateEntityCalls \cup ListEntitiesCalls

\* Requests inside the critical section of each Mutex.
InEntitySection == {r \in EntityCalls : pc[r] \in {"locked", "respond"}}
InRelationshipSection ==
    {r \in CreateRelationshipCalls : pc[r] \in {"locked", "respond"}}

Created(r) == pc[r] = "done" /\ resp[r] = CreatedResponse
Listed(r) == r \in ListEntitiesCalls /\ pc[r] = "done"
Positions(s, x) == {i \in 1..Len(s) : s[i] = x}
Overlapped(a, b) == a \notin doneBefore[b] /\ b \notin doneBefore[a]

\* C1 -- No loss under concurrency: when every create_entity call of the
\* execution carried a distinct entity and had returned before a
\* list_entities call began, that call returns exactly as many records as
\* there were calls, and each input entity exactly once.
C1_NoLossUnderConcurrency ==
    \A l \in Requests :
        ( /\ Listed(l)
          /\ CreateEntityCalls \subseteq doneBefore[l]
          /\ \A a, b \in CreateEntityCalls : a # b => body[a] # body[b] )
        => /\ Len(resp[l].body) = Cardinality(CreateEntityCalls)
           /\ \A c \in CreateEntityCalls :
                  Cardinality(Positions(resp[l].body, body[c])) = 1

\* Two distinct entities were appended by overlapping calls and then listed.
C1_Witness ==
    \E l \in Requests, a, b \in CreateEntityCalls :
        /\ Listed(l)
        /\ CreateEntityCalls = {a, b}
        /\ CreateEntityCalls \subseteq doneBefore[l]
        /\ body[a] # body[b]
        /\ Overlapped(a, b)
        /\ Len(resp[l].body) = 2

\* C2 -- Point-in-time snapshot: the array a list_entities call returns is
\* the collection as it stood at one instant not earlier than the call's
\* start (a prefix of the current collection at least as long as the
\* collection was when the call began); it holds the record of every
\* create_entity call answered before the list call began, and every element
\* is a complete record equal to the body of the request that pushed it.
C2_PointInTimeSnapshot ==
    \A l \in Requests :
        Listed(l) =>
            /\ \E k \in lenAtStart[l]..Len(entities) :
                   resp[l].body = VecSerialize(SubSeq(entities, 1, k))
            /\ \A c \in doneBefore[l] \cap CreateEntityCalls :
                   \E i \in 1..Len(resp[l].body) :
                       seen[l][i] = c /\ resp[l].body[i] = body[c]
            /\ \A i \in 1..Len(resp[l].body) :
                   /\ DOMAIN resp[l].body[i] = EntityKeys
                   /\ resp[l].body[i] = body[seen[l][i]]

\* A list call that began after one create had returned and while another
\* was still in flight, and whose snapshot is older than the current content.
C2_Witness ==
    \E l \in Requests, a, b \in CreateEntityCalls :
        /\ Listed(l)
        /\ a \in doneBefore[l]
        /\ b \notin doneBefore[l]
        /\ Len(resp[l].body) = 1
        /\ Len(entities) = 2

\* C3 -- Mutual exclusion per store: at most one handler is between its
\* lock() and the drop of its guard on the entities Mutex, and at most one
\* on the relationships Mutex; that handler is the recorded owner.
C3_MutualExclusion ==
    /\ Cardinality(InEntitySection) <= 1
    /\ Cardinality(InRelationshipSection) <= 1
    /\ \A r \in InEntitySection : entOwner = r
    /\ \A r \in InRelationshipSection : relOwner = r

\* A create_entity is in its critical section while a list_entities and
\* another create_entity wait for the same lock.
C3_Witness ==
    \E a, b \in CreateEntityCalls, l \in ListEntitiesCalls :
        /\ a # b
        /\ a \in InEntitySection
        /\ pc[b] = "lock"
        /\ pc[l] = "lock"

\* C4 -- Order preservation: if create_entity call c1 had been answered 201
\* before create_entity call c2 arrived, every list_entities result that
\* holds c2's record holds c1's record at an earlier position.
C4_OrderPreservation ==
    \A c1, c2 \in CreateEntityCalls, l \in Requests :
        ( /\ Listed(l)
          /\ c1 \in doneBefore[c2]
          /\ Created(c1) )
        => \A j \in Positions(seen[l], c2) :
               /\ resp[l].body[j] = body[c2]
               /\ \E i \in 1..(j - 1) :
                      seen[l][i] = c1 /\ resp[l].body[i] = body[c1]

\* Two different entities appended one after the other, then listed.
C4_Witness ==
    \E c1, c2 \in CreateEntityCalls, l \in Requests :
        /\ Listed(l)
        /\ c1 \in doneBefore[c2]
        /\ body[c1] # body[c2]
        /\ Positions(seen[l], c2) # {}

\* C5 -- Append-then-list: when the last mutation before a list_entities
\* copy was the push of create_entity call c, the result is the prior
\* content followed by exactly one record for c, whose id, entity_type, name
\* and metadata are those of c's request body.
C5_AppendThenList ==
    \A l \in Requests :
        (Listed(l) /\ Len(seen[l]) > 0) =>
            LET n == Len(seen[l])
                c == seen[l][n]
                out == resp[l].body
            IN  /\ Len(out) = n
                /\ SubSeq(out, 1, n - 1)
                       = VecSerialize(SubSeq(entities, 1, n - 1))
                /\ Positions(seen[l], c) = {n}
                /\ out[n].id = body[c].id
                /\ out[n].entity_type = body[c].entity_type
                /\ out[n].name = body[c].name
                /\ out[n].metadata = body[c].metadata

\* A list taken right after an append to a non-empty store.
C5_Witness ==
    \E l \in Requests :
        /\ Listed(l)
        /\ Len(seen[l]) = 2
        /\ Created(seen[l][2])
        /\ resp[l].body[2] = EntityBodyE2

\* The steps of request r's handler on each store (a panic is not a step the
\* handler chooses).
EntityStep(r) ==
    \/ CreateEntityLock(r)
    \/ CreateEntityPush(r)
    \/ CreateEntityRespond(r)
    \/ ListEntitiesLock(r)
    \/ ListEntitiesRespond(r)
RelationshipStep(r) ==
    \/ CreateRelationshipLock(r)
    \/ CreateRelationshipPush(r)
    \/ CreateRelationshipRespond(r)
Running(r) == pc[r] \in {"lock", "locked", "respond"}

\* C6 -- Stores never block each other: an unfinished create_entity or
\* list_entities handler can take its next step unless another handler holds
\* the entities guard, whoever holds or waits for the relationships lock;
\* an unfinished create_relationship handler can take its next step unless
\* another handler holds the relationships guard.
C6_StoresNeverBlock ==
    /\ \A r \in EntityCalls :
           Running(r) => (ENABLED EntityStep(r)) \/ entOwner \notin {None, r}
    /\ \A r \in CreateRelationshipCalls :
           Running(r) =>
               (ENABLED RelationshipStep(r)) \/ relOwner \notin {None, r}

\* Both guards are held at once, by different handlers, while a third
\* handler waits for a lock.
C6_Witness ==
    \E e \in InEntitySection, q \in InRelationshipSection, w \in Requests :
        /\ pc[w] = "lock"
        /\ entOwner = e
        /\ relOwner = q

PushedEntities == {r \in CreateEntityCalls : pc[r] \in {"respond", "done"}}
PushedRelationships ==
    {r \in CreateRelationshipCalls : pc[r] \in {"respond", "done"}}
Range(s) == {s[i] : i \in 1..Len(s)}

\* C7 -- Store independence of contents: in every reachable state the entity
\* collection holds exactly one record per create_entity handler that has
\* pushed, each equal to that handler's entity, and the relationship
\* collection exactly one per create_relationship handler that has pushed;
\* neither holds anything appended to the other.
C7_StoreIndependence ==
    /\ Range(entOrigin) = PushedEntities
    /\ Len(entities) = Cardinality(PushedEntities)
    /\ Len(entOrigin) = Len(entities)
    /\ \A i \in 1..Len(entities) :
           entities[i] = EntityDeserialize(body[entOrigin[i]])
    /\ Range(relOrigin) = PushedRelationships
    /\ Len(relationships) = Cardinality(PushedRelationships)
    /\ Len(relOrigin) = Len(relationships)
    /\ \A i \in 1..Len(relationships) :
           relationships[i] = RelationshipDeserialize(body[relOrigin[i]])

\* An entity append and a relationship append have both pushed while each
\* still holds its guard.
C7_Witness ==
    \E e \in CreateEntityCalls, q \in CreateRelationshipCalls :
        /\ pc[e] = "respond"
        /\ pc[q] = "respond"
        /\ Len(entities) >= 1
        /\ Len(relationships) >= 1

Extends(old, new) ==
    \/ new = old
    \/ Len(new) = Len(old) + 1 /\ SubSeq(new, 1, Len(old)) = old

\* C8 -- Create-only, monotonic growth: every step leaves each collection
\* unchanged or extends it by exactly one record at its end.
C8_MonotonicGrowth ==
    [][Extends(entities, entities') /\ Extends(relationships, relationships')]_vars

\* Both collections have grown, the entity collection twice with different
\* records.
C8_Witness ==
    /\ Len(entities) = 2
    /\ entities[1] # entities[2]
    /\ Len(relationships) >= 1

\* C9 -- Append always succeeds: a create_entity handler holding the guard
\* can always push, whatever the entity and the stored content; once it has
\* pushed its record is stored and it can respond; its only response is
\* 201 {"status":"created"}; it ends without a response only with the Mutex
\* poisoned.  The same holds for create_relationship.
C9_AppendAlwaysSucceeds ==
    /\ \A r \in CreateEntityCalls :
           /\ pc[r] = "locked" => ENABLED CreateEntityPush(r)
           /\ pc[r] = "respond" => ENABLED CreateEntityRespond(r)
           /\ pc[r] \in {"respond", "done"} =>
                  \E i \in 1..Len(entities) :
                      /\ entOrigin[i] = r
                      /\ entities[i] = EntityDeserialize(body[r])
           /\ pc[r] = "done" => resp[r] = CreatedResponse
           /\ pc[r] # "done" => resp[r] = NoResponse
           /\ pc[r] = "fault" => entPoisoned
    /\ \A r \in CreateRelationshipCalls :
           /\ pc[r] = "locked" => ENABLED CreateRelationshipPush(r)
           /\ pc[r] = "respond" => ENABLED CreateRelationshipRespond(r)
           /\ pc[r] \in {"respond", "done"} =>
                  \E i \in 1..Len(relationships) :
                      /\ relOrigin[i] = r
                      /\ relationships[i] = RelationshipDeserialize(body[r])
           /\ pc[r] = "done" => resp[r] = CreatedResponse
           /\ pc[r] # "done" => resp[r] = NoResponse
           /\ pc[r] = "fault" => relPoisoned

\* The same entity was created twice and a relationship once, all answered
\* 201.
C9_Witness ==
    \E a, b \in CreateEntityCalls, q \in CreateRelationshipCalls :
        /\ a # b
        /\ body[a] = body[b]
        /\ Created(a)
        /\ Created(b)
        /\ Created(q)

\* C10 -- Poisoned lock is fatal: once a store's Mutex is poisoned, every
\* later step leaves it poisoned, leaves the collection unchanged and unread,
\* grants the guard to nobody and sends no response for that store's
\* handlers; the only move such a handler makes is from lock() to the fault.
C10_PoisonedLockIsFatal ==
    [][ /\ entPoisoned =>
               /\ entPoisoned'
               /\ entities' = entities
               /\ seen' = seen
               /\ entOwner' = None
               /\ \A r \in EntityCalls :
                      /\ resp'[r] = resp[r]
                      /\ pc'[r] # pc[r] => pc[r] = "lock" /\ pc'[r] = "fault"
        /\ relPoisoned =>
               /\ relPoisoned'
               /\ relationships' = relationships
               /\ relOwner' = None
               /\ \A r \in CreateRelationshipCalls :
                      /\ resp'[r] = resp[r]
                      /\ pc'[r] # pc[r] => pc[r] = "lock" /\ pc'[r] = "fault"
      ]_vars

\* After a panic under the entities guard, a list_entities and another
\* create_entity have both found the Mutex poisoned and failed.
C10_Witness ==
    /\ entPoisoned
    /\ \E l \in ListEntitiesCalls : pc[l] = "fault"
    /\ Cardinality({c \in CreateEntityCalls : pc[c] = "fault"}) >= 2

ClientError(response) == response.status \in 400..499
MalformedBodies == {MalformedEntityBody, MalformedRelationshipBody}

\* C11 -- Malformed body causes no mutation: the step that accepts a POST
\* whose body lacks required fields answers it with a 4xx at once and
\* changes neither collection nor either Mutex; such a request never moves
\* again, never holds a guard and never is the origin of a stored record.
C11_MalformedBodyNoMutation ==
    [][ \A r \in Requests :
            body'[r] \in MalformedBodies =>
                /\ pc'[r] = "done"
                /\ ClientError(resp'[r])
                /\ resp'[r].status # StatusCreated
                /\ entOwner' # r
                /\ relOwner' # r
                /\ r \notin Range(entOrigin') \cup Range(relOrigin')
                /\ pc[r] = "idle" =>
                       /\ entities' = entities
                       /\ relationships' = relationships
                       /\ entOwner' = entOwner
                       /\ relOwner' = relOwner
                       /\ entPoisoned' = entPoisoned
                       /\ relPoisoned' = relPoisoned
      ]_vars

\* A malformed entity and a malformed relationship were both rejected while
\* a record was already stored.
C11_Witness ==
    \E a, b \in Requests :
        /\ body[a] = MalformedEntityBody
        /\ body[b] = MalformedRelationshipBody
        /\ ClientError(resp[a])
        /\ ClientError(resp[b])
        /\ Len(entities) + Len(relationships) >= 1

\* Every step a handler takes by itself.  The handlers are async fns without
\* an await point, so a worker thread runs each to its end; a thread blocked
\* in Mutex::lock is woken when the guard is dropped.
HandlerStep(r) == EntityStep(r) \/ RelationshipStep(r) \/ Health(r)

\* Fair scheduling of the worker threads: a handler whose next step stays
\* possible takes it.
FairSpec == Spec /\ \A r \in Requests : WF_vars(HandlerStep(r))

Finished(r) ==
    /\ pc[r] = "done" \/ (pc[r] = "fault" /\ (entPoisoned \/ relPoisoned))
    /\ entOwner # r
    /\ relOwner # r

Quiet == \A r \in Requests : pc[r] = "idle" \/ Finished(r)

\* C12 -- Every dispatched operation completes: under fair scheduling the
\* execution reaches a point from which every request that has started has
\* reached its end (its response, or the fault of a poisoned Mutex) with no
\* guard left in its hands.  A request starts at most once, so no started
\* handler waits or runs forever.
C12_EveryOperationCompletes == <>[]Quiet

\* Two overlapping create_entity calls and a create_relationship have all
\* been answered and both locks are free again.
C12_Witness ==
    \E a, b \in CreateEntityCalls, q \in CreateRelationshipCalls :
        /\ a # b
        /\ Overlapped(a, b)
        /\ Finished(a)
        /\ Finished(b)
        /\ Finished(q)
        /\ entOwner = None
        /\ relOwner = None

C14_NoUniquenessEnforcement ==
    \A a, b \in CreateEntityCalls, l \in Requests :
        ( /\ a # b
          /\ body[a].id = body[b].id
          /\ Listed(l)
          /\ Created(a)
          /\ Created(b)
          /\ {a, b} \subseteq doneBefore[l] )
        => \E i, j \in 1..Len(resp[l].body) :
               /\ i # j
               /\ seen[l][i] = a
               /\ seen[l][j] = b
               /\ resp[l].body[i] = body[a]
               /\ resp[l].body[j] = body[b]

\* The same id was created twice, the second call starting after the first
\* was answered, and a later listing returned two records.
C14_Witness ==
    \E a, b \in CreateEntityCalls, l \in Requests :
        /\ a \in doneBefore[b]
        /\ body[a].id = body[b].id
        /\ Listed(l)
        /\ {a, b} \subseteq doneBefore[l]
        /\ Len(resp[l].body) = 2
        /\ resp[l].body[1].id = resp[l].body[2].id

StoredIds == {entities[i][1] : i \in 1..Len(entities)}
Dangling(q) == {body[q].from_id, body[q].to_id} \ StoredIds # {}

\* C15 -- Dangling references are accepted: a create_relationship handler
\* whose from_id or to_id names no stored entity -- also with the entity
\* collection empty, its guard held by another handler or its Mutex
\* poisoned -- can take every step its own lock allows, stores its
\* relationship unchanged, answers 201, and never holds the entities guard.
C15_DanglingReferencesAccepted ==
    \A q \in CreateRelationshipCalls :
        /\ entOwner # q
        /\ Dangling(q) =>
               /\ (Running(q) /\ relOwner \in {None, q}) =>
                      ENABLED RelationshipStep(q)
               /\ pc[q] \in {"respond", "done"} =>
                      \E i \in 1..Len(relationships) :
                          /\ relOrigin[i] = q
                          /\ relationships[i][1] = body[q].from_id
                          /\ relationships[i][2] = body[q].to_id
               /\ pc[q] = "done" => resp[q].status = StatusCreated

\* A relationship between two ids was answered 201 with no entity stored,
\* and another whose from_id no entity ever has, with the entities Mutex
\* poisoned.
C15_Witness ==
    \E q, p \in CreateRelationshipCalls :
        /\ q # p
        /\ Created(q)
        /\ Created(p)
        /\ body[p] = RelationshipBodyB
        /\ Len(entities) = 0
        /\ entPoisoned
        /\ Len(relationships) = 2

\* C16 -- Empty-state baseline: before the first request both collections
\* are empty, and a list_entities call answered while no create_entity
\* handler has pushed returns 200 with the empty array.
C16_EmptyStateBaseline ==
    /\ nextReq = 0 => entities = <<>> /\ relationships = <<>>
    /\ \A l \in Requests :
           (Listed(l) /\ PushedEntities = {}) =>
               resp[l] = [status |-> StatusOk, body |-> <<>>]

\* A listing was answered with the empty array while a create_entity call
\* that arrived before it is still waiting for the lock.
C16_Witness ==
    \E l \in Requests, c \in CreateEntityCalls :
        /\ Listed(l)
        /\ c < l
        /\ pc[c] = "lock"
        /\ resp[l].body = <<>>
        /\ PushedEntities = {}

Holds(r) ==
    (IF entOwner = r THEN {"entities"} ELSE {}) \cup
    (IF relOwner = r THEN {"relationships"} ELSE {})

\* C17 -- Single-lock discipline: a handler holds at most one guard, and
\* only that of the Mutex its route locks; it holds none while it waits in
\* lock(), none before it starts and none after it has returned or failed;
\* a health handler holds none at any point.  So a handler that waits holds
\* nothing another handler could wait for.
C17_SingleLockDiscipline ==
    \A r \in Requests :
        /\ Cardinality(Holds(r)) <= 1
        /\ Holds(r) \subseteq {LockedStore(route[r])}
        /\ pc[r] \in {"idle", "lock", "done", "fault"} => Holds(r) = {}
        /\ route[r] = "health" => Holds(r) = {}
        /\ Holds(r) # {} => pc[r] \in {"locked", "respond"}

\* Both guards are held by two handlers while a health handler is running.
C17_Witness ==
    \E a, b, h \in Requests :
        /\ Holds(a) = {"entities"}
        /\ Holds(b) = {"relationships"}
        /\ route[h] = "health"
        /\ pc[h] = "respond"

EntityAcks == {r \in Requests : route[r] = "create_entity" /\ Created(r)}
RelationshipAcks ==
    {r \in Requests : route[r] = "create_relationship" /\ Created(r)}
InFlight(calls) == {r \in calls : Running(r)}

\* C18 -- Acknowledgement accounting: the 201 responses create_entity has
\* sent never outnumber the stored entities; the number of stored entities
\* is the number of create_entity handlers that have pushed; with no
\* create_entity handler running the two numbers are equal.  The same holds
\* for create_relationship and the relationship collection.
C18_AcknowledgementAccounting ==
    /\ Cardinality(EntityAcks) <= Len(entities)
    /\ Len(entities) = Cardinality(PushedEntities)
    /\ EntityAcks \subseteq PushedEntities
    /\ InFlight(CreateEntityCalls) = {} =>
           Len(entities) = Cardinality(EntityAcks)
    /\ Cardinality(RelationshipAcks) <= Len(relationships)
    /\ Len(relationships) = Cardinality(PushedRelationships)
    /\ RelationshipAcks \subseteq PushedRelationships
    /\ InFlight(CreateRelationshipCalls) = {} =>
           Len(relationships) = Cardinality(RelationshipAcks)

\* One create_entity is acknowledged and a second has pushed and not yet
\* answered: two records, one 201.
C18_Witness ==
    /\ Len(entities) = 2
    /\ Cardinality(EntityAcks) = 1
    /\ Cardinality(InFlight(CreateEntityCalls)) = 1
    /\ Len(relationships) = 0

ReadOnlyRoutes == {"health", "list_entities"}

\* C19 -- Read-only operations: no step of a health or list_entities
\* handler changes either collection; a waiting health handler can always
\* answer, and its answer is 200 {"status":"healthy","service":
\* "knowledge-graph"} whatever the collections hold and whoever holds the
\* guards.
C19_ReadOnlyOperations ==
    [][ \A r \in Requests :
            /\ (route[r] \in ReadOnlyRoutes /\ pc'[r] # pc[r]) =>
                   /\ entities' = entities
                   /\ relationships' = relationships
            /\ (route[r] = "health" /\ pc[r] = "respond") => ENABLED Health(r)
            /\ (route[r] = "health" /\ pc'[r] = "done") =>
                   resp'[r] =
                       [status |-> StatusOk,
                        body |-> [status |-> "healthy",
                                  service |-> "knowledge-graph"]]
      ]_vars

\* A health request has been answered and both guards are held by other
\* handlers.
C19_Witness ==
    \E h \in Requests :
        /\ route[h] = "health"
        /\ pc[h] = "done"
        /\ resp[h] = HealthResponse
        /\ entOwner # None
        /\ relOwner # None

\* What request r must have been answered, given only its route, whether its
\* own body has the required keys, and the entity collection up to the
\* length r's listing saw.  Nothing of the relationship store is read.
ExpectedResponse(r) ==
    IF pc[r] # "done" THEN [status |-> None]
    ELSE CASE route[r] = "health" ->
                  [status |-> StatusOk,
                   body |-> [status |-> "healthy",
                             service |-> "knowledge-graph"]]
           [] route[r] = "create_entity" ->
                  IF EntityKeys \subseteq DOMAIN body[r]
                  THEN [status |-> StatusCreated,
                        body |-> [status |-> "created"]]
                  ELSE [status |-> StatusBadRequest]
           [] route[r] = "create_relationship" ->
                  IF RelationshipKeys \subseteq DOMAIN body[r]
                  THEN [status |-> StatusCreated,
                        body |-> [status |-> "created"]]
                  ELSE [status |-> StatusBadRequest]
           [] route[r] = "list_entities" ->
                  [status |-> StatusOk,
                   body |-> [i \in 1..Len(seen[r]) |->
                                EntitySerialize(entities[i])]]

\* The part of the state the health, create_entity and list_entities
\* handlers read or write.
EntitySide ==
    <<entities, entOwner, entPoisoned,
      [r \in Requests |->
          IF route[r] = "create_relationship" THEN <<>> ELSE <<pc[r], resp[r]>>]>>

\* C20 -- Relationships are unobservable: every response is the one fixed by
\* the request's route, the well-formedness of its own body and the entity
\* collection (so it is the same 201 for every relationship stored), and a
\* step that changes the relationship store changes nothing the health,
\* create_entity and list_entities handlers read or answer.  Two executions
\* that differ only in the relationships appended therefore give identical
\* responses on those three routes.
C20_RelationshipsUnobservable ==
    [][ /\ \A r \in Requests : resp'[r] = ExpectedResponse(r)'
        /\ relVars' # relVars => EntitySide' = EntitySide
      ]_vars

\* Two different relationships are stored and a listing that began after
\* both were acknowledged returned the empty array.
C20_Witness ==
    \E p, q \in CreateRelationshipCalls, l \in Requests :
        /\ body[p] = RelationshipBodyA
        /\ body[q] = RelationshipBodyB
        /\ {p, q} \subseteq doneBefore[l]
        /\ Listed(l)
        /\ resp[l].body = <<>>
        /\ Len(relationships) = 2

====
